---- MODULE Spec2Model ----
(***************************************************************************)
(* CanvasShaderExt (src/index.js): pixel-buffer transforms on Canvas 2D    *)
(* contexts and ImageData objects.                                         *)
(*                                                                         *)
(* An ImageData is a record [width, height, data] whose data is the flat   *)
(* row-major RGBA byte array, indexed from 0 as in the source.  A context  *)
(* is a record [width, height, data, transform]: the canvas size, the      *)
(* canvas pixels and the current transformation matrix.  Contexts live in  *)
(* a heap (a sequence indexed by object identity), because pack and mask   *)
(* are specified by which objects they touch.                              *)
(*                                                                         *)
(* Every action is one whole library call on freshly drawn arguments; the  *)
(* library keeps no state between calls.                                   *)
(***************************************************************************)
EXTENDS Integers, Sequences, FiniteSets, TLC

VARIABLES
    heap,       \* the contexts that exist: heap[id] is context id
    imageData,  \* the ImageData handed to swizzle / tint / bumpScale
    images,     \* the array handed to pack: entries [data |-> id, channels |-> map]
    ret,        \* the value the call returned (a sequence of context ids)
    err,        \* "none", or the name of the error the call threw
    call,       \* the call that was made: [name |-> ..., arguments]
    pre         \* heap, imageData and images as they were when the call was made

vars == <<heap, imageData, images, ret, err, call, pre>>

(***************************************************************************)
(* Bounds of the inputs.                                                   *)
(***************************************************************************)
MaxW == 2          \* widest canvas drawn for the one-canvas operations
MaxH == 3          \* tallest canvas drawn for the one-canvas operations
MaxMapLen == 2     \* most entries in a channel map handed to swizzle
MaskMaxW == 2      \* widest canvas drawn for mask (base and imageMask)
MaskMaxH == 1      \* tallest canvas drawn for mask
MaxImages == 2     \* most entries in the array handed to pack
PackMaxSize == 2   \* largest sizeX / sizeY handed to pack
ResizeMaxW == 2    \* widest canvas drawn for resize and tile
ResizeMaxH == 2    \* tallest canvas drawn for resize and tile
MaxNew == 3        \* largest |newX| / |newY| handed to resize
MaxTile == 2       \* largest tileX / tileY handed to tile
MaxSize == 3       \* largest size / sizeY handed to tile

(***************************************************************************)
(* Channels (src/index.js:8-13).                                           *)
(***************************************************************************)
Channel == {"R", "G", "B", "A"}

channelIndexes == [c \in Channel |-> CASE c = "R" -> 0 [] c = "G" -> 1
                                       [] c = "B" -> 2 [] c = "A" -> 3]

\* The strings a caller can put where a Channel is expected: the four
\* channels and one string that is none of them.
ChannelNames == Channel \cup {"X"}

\* A channel map { K1: V1, K2: V2, ... } is the sequence of its [key, value]
\* pairs in insertion order, which is the order Object.entries yields.
RECURSIVE MapsOfLen(_, _, _)
MapsOfLen(keys, vals, n) ==
    IF n = 0 THEN {<<>>}
    ELSE {Append(m, <<k, v>>) :
            m \in MapsOfLen(keys, vals, n - 1), k \in keys, v \in vals}

DistinctKeys(m) == \A a, b \in DOMAIN m : a # b => m[a][1] # m[b][1]

ChannelMaps(keys, vals, maxLen) ==
    {m \in UNION {MapsOfLen(keys, vals, n) : n \in 0..maxLen} : DistinctKeys(m)}

HasKey(m, k) == \E a \in DOMAIN m : m[a][1] = k

\* delete obj[k]
DeleteKey(m, k) == SelectSeq(m, LAMBDA p : p[1] # k)

(***************************************************************************)
(* Pixel data.                                                             *)
(***************************************************************************)
\* The colours input images are painted with: eight different bytes, none of
\* them 0 or 255, so that neither colour is the transparent black of a
\* cleared canvas.  Both survive the canvas's premultiplied storage exactly
\* (alpha 51 = 255/5 with colour bytes that are multiples of 5, alpha
\* 85 = 255/3 with multiples of 3), so a canvas can hold them.
Palette == {<<10, 20, 30, 51>>, <<60, 90, 120, 85>>}

\* Storing v into a Uint8ClampedArray element.
ToUint8Clamp(v) == IF v < 0 THEN 0 ELSE IF v > 255 THEN 255 ELSE v

Flat(w, h, f) == [i \in 0..(4 * w * h - 1) |-> f[i \div 4][(i % 4) + 1]]

ImageDatas(maxW, maxH) ==
    UNION {{[width |-> w, height |-> h, data |-> Flat(w, h, f)] :
                f \in [0..(w * h - 1) -> Palette]} :
           w \in 1..maxW, h \in 1..maxH}

NoImageData == [width |-> 0, height |-> 0, data |-> <<>>]

Identity == <<1, 0, 0, 1, 0, 0>>

\* data.data.length
DataLength(d) == Cardinality(DOMAIN d)

\* The byte of channel index c of pixel (x, y).
At(img, x, y, c) == img.data[4 * (y * img.width + x) + c]

PixelAt(img, x, y) == [c \in 0..3 |-> At(img, x, y, c)]

(***************************************************************************)
(* The Canvas 2D context, as the library uses it: an exact store of RGBA   *)
(* bytes (section 3 of the specification: "a flat byte sequence in         *)
(* row-major order"), read and written without loss.                       *)
(***************************************************************************)
\* Canvas.createCanvas(w, h).getContext("2d"): transparent black.
createCanvas(w, h) ==
    [width |-> w, height |-> h, data |-> [i \in 0..(4 * w * h - 1) |-> 0],
     transform |-> Identity]

\* ctx.getImageData(sx, sy, sw, sh) for sw, sh > 0: the rectangle's pixels,
\* transparent black where the rectangle lies outside the canvas.
getImageData(ctx, sx, sy, sw, sh) ==
    [width |-> sw, height |-> sh,
     data |-> [i \in 0..(4 * sw * sh - 1) |->
        LET x == sx + ((i \div 4) % sw)
            y == sy + ((i \div 4) \div sw)
        IN  IF x >= 0 /\ x < ctx.width /\ y >= 0 /\ y < ctx.height
            THEN At(ctx, x, y, i % 4) ELSE 0]]

\* ctx.putImageData(img, dx, dy): the pixels of img replace those of the
\* canvas at (dx, dy); what falls outside the canvas is dropped.  The
\* transformation matrix plays no part.
putImageData(ctx, img, dx, dy) ==
    [ctx EXCEPT !.data = [i \in DOMAIN ctx.data |->
        LET x == ((i \div 4) % ctx.width) - dx
            y == ((i \div 4) \div ctx.width) - dy
        IN  IF x >= 0 /\ x < img.width /\ y >= 0 /\ y < img.height
            THEN At(img, x, y, i % 4) ELSE ctx.data[i]]]

\* ctx.canvas.width = w; ctx.canvas.height = h: the canvas is cleared and
\* the context state is reset.
setSize(ctx, w, h) == createCanvas(w, h)

\* ctx.drawImage(src.canvas, 0, 0, dw, dh) onto a cleared canvas under the
\* identity matrix: src scaled to dw x dh, by nearest-neighbour sampling.
drawImage(ctx, src, dw, dh) ==
    [ctx EXCEPT !.data = [i \in DOMAIN ctx.data |->
        LET x == (i \div 4) % ctx.width
            y == (i \div 4) \div ctx.width
        IN  IF x < dw /\ y < dh /\ src.width > 0 /\ src.height > 0
            THEN At(src, (x * src.width) \div dw, (y * src.height) \div dh, i % 4)
            ELSE ctx.data[i]]]

\* ctx.translate(tx, ty) and ctx.scale(sx, sy) on the matrix <<a,b,c,d,e,f>>.
translate(ctx, tx, ty) ==
    LET m == ctx.transform
    IN  [ctx EXCEPT !.transform =
            <<m[1], m[2], m[3], m[4],
              m[5] + m[1] * tx + m[3] * ty, m[6] + m[2] * tx + m[4] * ty>>]

scale(ctx, sx, sy) ==
    LET m == ctx.transform
    IN  [ctx EXCEPT !.transform =
            <<m[1] * sx, m[2] * sx, m[3] * sy, m[4] * sy, m[5], m[6]>>]

\* ctx.fillRect(x, y, w, h) while ctx.fillStyle is the opaque colour
\* rgb(r, g, b), style = <<r, g, b>>: the rectangle is drawn under the current
\* matrix, and every pixel whose centre the matrix maps from inside it
\* becomes <<r, g, b, 255>>.  The matrices the library forms (those of flip)
\* have determinant 1 or -1, so the inverse matrix is det times the adjugate;
\* coordinates are doubled to keep pixel centres whole.  A negative w or h
\* extends the rectangle to the other side of (x, y).
fillRect(ctx, style, x, y, w, h) ==
    LET m == ctx.transform
        det == m[1] * m[4] - m[2] * m[3]
        ux2(px, py) == det * (m[4] * (2 * px + 1 - 2 * m[5])
                              - m[3] * (2 * py + 1 - 2 * m[6]))
        uy2(px, py) == det * (m[1] * (2 * py + 1 - 2 * m[6])
                              - m[2] * (2 * px + 1 - 2 * m[5]))
        within(v2, from, len) ==
            IF len >= 0 THEN 2 * from < v2 /\ v2 < 2 * (from + len)
            ELSE 2 * (from + len) < v2 /\ v2 < 2 * from
    IN  [ctx EXCEPT !.data = [i \in DOMAIN ctx.data |->
            LET px == (i \div 4) % ctx.width
                py == (i \div 4) \div ctx.width
            IN  IF within(ux2(px, py), x, w) /\ within(uy2(px, py), y, h)
                THEN IF i % 4 = 3 THEN 255 ELSE style[(i % 4) + 1]
                ELSE ctx.data[i]]]

\* image2Context(img): a new canvas of the image's size with the image drawn
\* at (0, 0) in its natural size.
image2Context(img) ==
    LET ctx == createCanvas(img.width, img.height)
    IN  drawImage(ctx, img, img.width, img.height)

\* The contexts handed to the library: those image2Context makes of the
\* images of up to maxW x maxH pixels.
Contexts(maxW, maxH) == {image2Context(d) : d \in ImageDatas(maxW, maxH)}

(***************************************************************************)
(* swizzle (src/index.js:25-65).                                           *)
(***************************************************************************)
\* SwizzleWrite reading the key as the destination and the value as the source.
SwizzleWriteKeyIsDest(d, swizzleMap, entry, i) ==
    IF entry[1] \in Channel
    THEN [d EXCEPT ![i + channelIndexes[entry[1]]] = swizzleMap[entry[2]]]
    ELSE d

\* SwizzleWrite reading the source channel from the array being written.
SwizzleWriteLive(d, swizzleMap, entry, i) ==
    IF entry[1] \in Channel
    THEN [d EXCEPT ![i + channelIndexes[entry[2]]] = d[i + channelIndexes[entry[1]]]]
    ELSE [d EXCEPT ![i + channelIndexes[entry[2]]] = 0]

\* One entry [source, dest] of the loop of swizzleFrame at byte offset i:
\* the value read before the loop for the key is stored into the channel
\* the value names; a key that is no channel reads undefined, stored as 0.
SwizzleWrite(d, swizzleMap, entry, i) ==
    LET source == entry[1]
        dest == entry[2]
        v == IF source \in Channel THEN swizzleMap[source] ELSE 0
    IN  [d EXCEPT ![i + channelIndexes[dest]] = v]

RECURSIVE SwizzleEntries(_, _, _, _, _)
SwizzleEntries(d, swizzleMap, options, k, i) ==
    IF k > Len(options) THEN [data |-> d, err |-> "none"]
    ELSE IF options[k][2] \notin Channel THEN [data |-> d, err |-> "Error"]
    ELSE SwizzleEntries(SwizzleWrite(d, swizzleMap, options[k], i),
                        swizzleMap, options, k + 1, i)

swizzleFrame(d, options, i) ==
    LET swizzleMap == [c \in Channel |-> d[i + channelIndexes[c]]]
    IN  SwizzleEntries(d, swizzleMap, options, 1, i)

RECURSIVE SwizzleFrom(_, _, _)
SwizzleFrom(d, options, i) ==
    IF i >= DataLength(d) THEN [data |-> d, err |-> "none"]
    ELSE LET r == swizzleFrame(d, options, i)
         IN  IF r.err # "none" THEN r ELSE SwizzleFrom(r.data, options, i + 4)

swizzle(data, options) == SwizzleFrom(data.data, options, 0)

(***************************************************************************)
(* resize, flip, duplicate (src/index.js:257-309).                         *)
(***************************************************************************)
Abs(n) == IF n < 0 THEN -n ELSE n

\* getImageData throws IndexSizeError for a rectangle of width or height 0.
Throws(rects) == \E r \in rects : r[1] = 0 \/ r[2] = 0

\* Math.round(n / d) for d > 0: halves round up.
Round(n, d) == (2 * n + d) \div (2 * d)

\* The staging canvas whose content never reaches it: what resize would hold
\* had it read the canvas only after changing its dimensions.
ResizeStagingBlank(ctx) == createCanvas(ctx.width, ctx.height)

\* resize(ctx, newX, newY); newY = 0 stands for a falsy newY: the code tests
\* !newY, which is true of an omitted newY and of a newY of 0 alike.
ResizeHeight(ctx, newX, newY) ==
    IF newY = 0 THEN Round(ctx.height * newX, ctx.width) ELSE newY

\* The staging canvas of resize: a new canvas of the old dimensions holding
\* the pixels read from ctx (lines 265-270).
ResizeStaging(ctx) ==
    LET oldX == ctx.width
        oldY == ctx.height
        data == getImageData(ctx, 0, 0, oldX, oldY)
    IN  putImageData(createCanvas(oldX, oldY), data, 0, 0)

resize(ctx, newX, newY) ==
    LET absX == Abs(newX)
        absY == Abs(ResizeHeight(ctx, newX, newY))
        newCanvas == ResizeStaging(ctx)
    IN  drawImage(setSize(ctx, absX, absY), newCanvas, absX, absY)

\* The two loops of tile (lines 190-194), cell k = y * tileX + x at a time:
\* part.putImageData(data2, x * sectionSizeX, y * sectionSizeY).
RECURSIVE TilePart(_, _, _, _, _, _, _)
TilePart(part, data2, tileX, tileY, sectionSizeX, sectionSizeY, k) ==
    IF k >= tileX * tileY THEN part
    ELSE TilePart(putImageData(part, data2, (k % tileX) * sectionSizeX,
                               (k \div tileX) * sectionSizeY),
                  data2, tileX, tileY, sectionSizeX, sectionSizeY, k + 1)

\* tile(ctx, tileX, tileY, size, sizeY): the canvas afterwards, the grid
\* canvas part, and the error thrown, if any.  resize (line 186) is handed a
\* section size of 0 when there are more tiles than pixels; where it leaves
\* the canvas without width or height, the getImageData of line 188 throws
\* and the call ends there, the canvas as resize left it and part still
\* blank.  A part without height is drawn as nothing (line 197).
tile(ctx, tileX, tileY, size, sizeY) ==
    LET sectionSizeX == size \div tileX
        sectionSizeY == sizeY \div tileY
        resized == resize(ctx, sectionSizeX, sectionSizeY)
        blank == createCanvas(sectionSizeX * tileX, sectionSizeY * tileY)
        data2 == getImageData(resized, 0, 0, resized.width, resized.height)
        part == TilePart(blank, data2, tileX, tileY, sectionSizeX, sectionSizeY, 0)
    IN  IF Throws({<<resized.width, resized.height>>})
        THEN [ctx |-> resized, part |-> blank, err |-> "IndexSizeError"]
        ELSE [ctx |-> drawImage(setSize(resized, size, sizeY), part, size, sizeY),
              part |-> part, err |-> "none"]

Direction == {"horizontal", "vertical"}

flip(ctx, direction) ==
    LET x == IF direction = "horizontal" THEN -1 ELSE 1
        y == IF direction = "vertical" THEN -1 ELSE 1
    IN  scale(translate(ctx, IF direction = "horizontal" THEN ctx.width ELSE 0,
                             IF direction = "vertical" THEN ctx.height ELSE 0),
              x, y)

duplicate(ctx) ==
    LET data == getImageData(ctx, 0, 0, ctx.width, ctx.height)
    IN  putImageData(createCanvas(ctx.width, ctx.height), data, 0, 0)

\* fill(ctx, r, g, b, x, y, z, h) (src/index.js:517-522) for bytes r, g, b:
\* x, y, z, h are <<>> when omitted and <<v>> when supplied, and default to
\* 0, 0, the canvas width and the canvas height.  ctx.fillStyle is set for
\* the fillRect and put back after it, so the call leaves it as it was.
fill(ctx, r, g, b, x, y, z, h) ==
    LET x0 == IF x = <<>> THEN 0 ELSE x[1]
        y0 == IF y = <<>> THEN 0 ELSE y[1]
        z0 == IF z = <<>> THEN ctx.width ELSE z[1]
        h0 == IF h = <<>> THEN ctx.height ELSE h[1]
    IN  fillRect(ctx, <<r, g, b>>, x0, y0, z0, h0)

(***************************************************************************)
(* bumpScale and tint (src/index.js:77-167, 469-503).  A number that need  *)
(* not be whole is a rational <<n, d>>, d > 0.                             *)
(***************************************************************************)
normalDefaultRGB == <<128, 128, 255>>

\* lerp(a, b, t) = a + (b - a) * t for whole a and b.
lerp(a, b, t) == <<a * t[2] + (b - a) * t[1], t[2]>>

clamp(min, max, val) ==
    IF val[1] < min * val[2] THEN <<min, 1>>
    ELSE IF val[1] > max * val[2] THEN <<max, 1>>
    ELSE val

\* The conversion a Uint8ClampedArray applies to a stored number: the
\* nearest whole number, a half going to the even one, kept within 0..255.
Uint8Clamped(q) ==
    LET floor == q[1] \div q[2]
        twice == 2 * (q[1] - floor * q[2])
        nearest == IF twice < q[2] THEN floor
                   ELSE IF twice > q[2] THEN floor + 1
                   ELSE IF floor % 2 = 0 THEN floor ELSE floor + 1
    IN  ToUint8Clamp(nearest)

\* bumpScaleFrame scaling the blue channel as it scales red and green.
bumpScaleFrameRGB(d, factor, i) ==
    [d EXCEPT
       ![i] = Uint8Clamped(clamp(0, 255, lerp(normalDefaultRGB[1], d[i], factor))),
       ![i + 1] = Uint8Clamped(clamp(0, 255, lerp(normalDefaultRGB[2], d[i + 1], factor))),
       ![i + 2] = Uint8Clamped(clamp(0, 255, lerp(normalDefaultRGB[3], d[i + 2], factor)))]

bumpScaleFrame(d, factor, i) ==
    [d EXCEPT
       ![i] = Uint8Clamped(clamp(0, 255, lerp(normalDefaultRGB[1], d[i], factor))),
       ![i + 1] = Uint8Clamped(clamp(0, 255, lerp(normalDefaultRGB[2], d[i + 1], factor)))]

RECURSIVE BumpScaleFrom(_, _, _)
BumpScaleFrom(d, factor, i) ==
    IF i >= DataLength(d) THEN d
    ELSE BumpScaleFrom(bumpScaleFrame(d, factor, i), factor, i + 4)

bumpScale(data, factor) == BumpScaleFrom(data.data, factor, 0)

\* tint2Mult dividing by 256.
tint2MultBy256(t) == IF t > 0 THEN <<t, 256>> ELSE <<0, 1>>

tint2Mult(t) == IF t > 0 THEN <<t, 255>> ELSE <<0, 1>>

\* One channel of tintFrame: byte c under the multiplier m.
TintChannel(c, m) ==
    IF m < 0
    THEN Uint8Clamped(clamp(0, 255, lerp(c, 255 - c, tint2Mult(-m))))
    ELSE LET mult == tint2Mult(m)
         IN  Uint8Clamped(clamp(0, 255, <<Round(c * mult[1], mult[2]), 1>>))

\* hdrToSdr(c, c, c, 2)[0] for c = 0..255, the function of lines 568-619
\* evaluated in double precision with its default parameters.  With the
\* default saturation 1 each channel of hdrToSdr(r, g, b, 2) depends on its
\* own input only, so HdrOfTwo[r + 1] is the first component for every g, b.
HdrOfTwo == <<
      0,   0,   1,   1,   2,   3,   3,   4,   5,   5,   6,   7,   8,   9,  10,  12,
     13,  14,  15,  17,  18,  20,  21,  23,  24,  26,  27,  29,  30,  32,  34,  35,
     37,  39,  41,  42,  44,  46,  48,  50,  52,  54,  56,  58,  60,  62,  64,  66,
     68,  70,  72,  74,  76,  78,  80,  82,  84,  86,  89,  91,  93,  95,  97,  99,
    101, 103, 105, 107, 109, 111, 113, 115, 117, 119, 121, 123, 125, 127, 129, 131,
    133, 135, 136, 138, 140, 142, 144, 145, 147, 149, 150, 152, 154, 155, 157, 158,
    160, 161, 163, 164, 166, 167, 169, 170, 172, 173, 174, 175, 177, 178, 179, 181,
    182, 183, 184, 185, 186, 187, 189, 190, 191, 192, 193, 194, 195, 196, 197, 197,
    198, 199, 200, 201, 202, 203, 204, 204, 205, 206, 207, 207, 208, 209, 210, 210,
    211, 212, 212, 213, 214, 214, 215, 215, 216, 217, 217, 218, 218, 219, 219, 220,
    220, 221, 221, 222, 222, 223, 223, 224, 224, 225, 225, 226, 226, 226, 227, 227,
    228, 228, 228, 229, 229, 229, 230, 230, 230, 231, 231, 231, 232, 232, 232, 233,
    233, 233, 234, 234, 234, 234, 235, 235, 235, 235, 236, 236, 236, 237, 237, 237,
    237, 237, 238, 238, 238, 238, 239, 239, 239, 239, 239, 240, 240, 240, 240, 240,
    241, 241, 241, 241, 241, 241, 242, 242, 242, 242, 242, 242, 243, 243, 243, 243,
    243, 243, 243, 244, 244, 244, 244, 244, 244, 244, 245, 245, 245, 245, 245, 245 >>

\* hdrToSdr(r, g, b, int) for the intensity 2, the intensity other than 1
\* that tint is called with here.
HdrColor(r, g, b, int) == <<HdrOfTwo[r + 1], HdrOfTwo[g + 1], HdrOfTwo[b + 1]>>

tintFrame(d, r, g, b, int, i) ==
    LET t == [d EXCEPT ![i] = TintChannel(d[i], r),
                       ![i + 1] = TintChannel(d[i + 1], g),
                       ![i + 2] = TintChannel(d[i + 2], b)]
        hdrColor == HdrColor(t[i], t[i + 1], t[i + 2], int)
    IN  IF int # 1
        THEN [t EXCEPT ![i] = hdrColor[1], ![i + 1] = hdrColor[2],
                       ![i + 2] = hdrColor[3]]
        ELSE t

RECURSIVE TintFrom(_, _, _, _, _, _)
TintFrom(d, r, g, b, int, i) ==
    IF i >= DataLength(d) THEN d
    ELSE TintFrom(tintFrame(d, r, g, b, int, i), r, g, b, int, i + 4)

tint(data, r, g, b, int) == TintFrom(data.data, r, g, b, int, 0)

(***************************************************************************)
(* hdrToSdr (src/index.js:533-634).  Its arithmetic is double precision    *)
(* with powers of arbitrary exponent; a number is carried here by its      *)
(* kind: "NaN", "Inf" (an infinity of either sign), "neg", "zero", "pos"   *)
(* (finite of that sign) or "num" (finite, sign not determined).  A CASE   *)
(* without a matching arm marks a combination the function never forms.   *)
(***************************************************************************)
\* The kind of the rational <<n, d>>.
Kind(q) == IF q[1] < 0 THEN "neg" ELSE IF q[1] = 0 THEN "zero" ELSE "pos"

\* a * b.
KindMul(a, b) ==
    CASE a = "NaN" \/ b = "NaN" -> "NaN"
      [] "Inf" \in {a, b} /\ "zero" \in {a, b} -> "NaN"
      [] "Inf" \in {a, b} /\ "num" \notin {a, b} -> "Inf"
      [] "Inf" \notin {a, b} /\ "zero" \in {a, b} -> "zero"
      [] {a, b} \subseteq {"neg", "pos", "num"} /\ "num" \in {a, b} -> "num"
      [] {a, b} \subseteq {"neg", "pos"} -> IF a = b THEN "pos" ELSE "neg"

\* a + b for finite or NaN a and b.
KindAdd(a, b) ==
    CASE a = "NaN" \/ b = "NaN" -> "NaN"
      [] a # "NaN" /\ b = "zero" /\ a # "Inf" -> a
      [] a = "zero" /\ b \notin {"NaN", "zero", "Inf"} -> b
      [] {a, b} \subseteq {"neg", "pos", "num"} ->
            IF a = b /\ a # "num" THEN a ELSE "num"

\* -a.
KindNeg(a) == CASE a = "pos" -> "neg" [] a = "neg" -> "pos"
                [] a \notin {"pos", "neg"} -> a

\* Math.pow(x, c) for the exponent c = <<n, d>> in lowest terms: 1 for c = 0
\* whatever x is; NaN for a negative base and an exponent that is not whole;
\* an infinity for a zero base and a negative exponent.
MathPow(x, c) ==
    CASE c[1] = 0 -> "pos"
      [] c[1] # 0 /\ x = "NaN" -> "NaN"
      [] c[1] # 0 /\ x = "pos" -> "pos"
      [] c[1] > 0 /\ x = "zero" -> "zero"
      [] c[1] < 0 /\ x = "zero" -> "Inf"
      [] c[1] # 0 /\ x = "neg" ->
            IF c[2] # 1 THEN "NaN" ELSE IF c[1] % 2 = 0 THEN "pos" ELSE "neg"

\* sRGBToLinear(x) for x = byte / 255: x / 12.92 or a power of a positive base.
sRGBToLinear(x) == x

\* tonemap(x) = (x * (A * x + B)) / (x * (C * x + D) + E).  The denominator
\* is positive for every finite x (D * D < 4 * C * E), so the quotient is
\* finite, 0 at 0 and positive for positive x; at an infinity it is
\* Infinity / Infinity.
tonemap(x) ==
    CASE x = "NaN" -> "NaN"
      [] x = "Inf" -> "NaN"
      [] x = "zero" -> "zero"
      [] x = "pos" -> "pos"
      [] x \in {"neg", "num"} -> "num"

\* clamp(0, 1, val): NaN is neither below 0 nor above 1 and is returned.
ClampUnit(val) ==
    CASE val = "NaN" -> "NaN"
      [] val \in {"neg", "zero"} -> "zero"
      [] val \in {"pos", "num"} -> val

\* linearToSRGB(x) for x as ClampUnit returns it, then Math.round(x * 255):
\* NaN stays NaN, 0 gives 0, any other number of [0, 1] a byte.
EncodeByte(x) ==
    CASE x = "NaN" -> [nan |-> TRUE, min |-> 0, max |-> 0]
      [] x = "zero" -> [nan |-> FALSE, min |-> 0, max |-> 0]
      [] x \in {"pos", "num"} -> [nan |-> FALSE, min |-> 0, max |-> 255]

\* hdrToSdr(r, g, b, intensity, exposure, contrast, saturation,
\* highlightCompression, shadowLifting) for bytes r, g, b and rational
\* parameters: each component is NaN or a whole number of min..max.
hdrToSdr(r, g, b, intensity, exposure, contrast, saturation, highlightCompression, shadowLifting) ==
    LET linear == [c \in 1..3 |->
                     sRGBToLinear(IF <<r, g, b>>[c] = 0 THEN "zero" ELSE "pos")]
        exposed == [c \in 1..3 |->
                      KindMul(linear[c], KindMul(Kind(intensity), Kind(exposure)))]
        contrasted == [c \in 1..3 |-> MathPow(exposed[c], contrast)]
        mapped == [c \in 1..3 |->
                     KindAdd(tonemap(KindMul(contrasted[c], Kind(highlightCompression))),
                             Kind(shadowLifting))]
        luminance == KindAdd(KindAdd(mapped[1], mapped[2]), mapped[3])
        saturated == [c \in 1..3 |->
                        KindAdd(luminance,
                                KindMul(Kind(saturation),
                                        KindAdd(mapped[c], KindNeg(luminance))))]
    IN  [c \in 1..3 |-> EncodeByte(ClampUnit(saturated[c]))]

(***************************************************************************)
(* offset (src/index.js:211-244).  An offset is a rational <<n, d>>, d > 0.*)
(***************************************************************************)
\* n % d of JavaScript: the remainder has the sign of the dividend.
Rem(n, d) == IF n >= 0 THEN n % d ELSE -((-n) % d)

\* The numerator of offset % 1, over the same denominator.
Normalized(q) == Rem(q[1], q[2])

\* normalized ? Math.round(size * (isNeg ? 1 + normalized : normalized)) : 0
ShiftAmount(size, q) ==
    LET normalized == Normalized(q)
        isNeg == normalized < 0
    IN  IF normalized # 0
        THEN Round(size * (IF isNeg THEN q[2] + normalized ELSE normalized), q[2])
        ELSE 0

offset(ctx, offsetX, offsetY) ==
    LET sizeX == ctx.width
        sizeY == ctx.height
        normalizedX == Normalized(offsetX)
        normalizedY == Normalized(offsetY)
        shiftAmountX == ShiftAmount(sizeX, offsetX)
        shiftAmountY == ShiftAmount(sizeY, offsetY)
    IN  IF normalizedX # 0 /\ normalizedY = 0 THEN
            IF Throws({<<shiftAmountX, sizeY>>, <<sizeX - shiftAmountX, sizeY>>})
            THEN [ctx |-> ctx, err |-> "IndexSizeError"]
            ELSE LET right == getImageData(ctx, sizeX - shiftAmountX, 0, shiftAmountX, sizeY)
                     left == getImageData(ctx, 0, 0, sizeX - shiftAmountX, sizeY)
                 IN  [ctx |-> putImageData(putImageData(ctx, left, shiftAmountX, 0),
                                           right, 0, 0),
                      err |-> "none"]
        ELSE IF normalizedX = 0 /\ normalizedY # 0 THEN
            IF Throws({<<sizeX, shiftAmountY>>, <<sizeX, sizeY - shiftAmountY>>})
            THEN [ctx |-> ctx, err |-> "IndexSizeError"]
            ELSE LET bottom == getImageData(ctx, 0, sizeY - shiftAmountY, sizeX, shiftAmountY)
                     top == getImageData(ctx, 0, 0, sizeX, sizeY - shiftAmountY)
                 IN  [ctx |-> putImageData(putImageData(ctx, top, 0, shiftAmountY),
                                           bottom, 0, 0),
                      err |-> "none"]
        ELSE IF normalizedX # 0 /\ normalizedY # 0 THEN
            IF Throws({<<shiftAmountX, shiftAmountY>>,
                       <<sizeX - shiftAmountX, sizeY - shiftAmountY>>,
                       <<shiftAmountX, sizeY - shiftAmountY>>})
            THEN [ctx |-> ctx, err |-> "IndexSizeError"]
            ELSE LET bottomRight == getImageData(ctx, sizeX - shiftAmountX, sizeY - shiftAmountY,
                                                 shiftAmountX, shiftAmountY)
                     bottomLeft == getImageData(ctx, 0, sizeY - shiftAmountY,
                                                sizeX - shiftAmountX, sizeY - shiftAmountY)
                     topRight == getImageData(ctx, sizeX - shiftAmountX, 0,
                                              shiftAmountX, sizeY - shiftAmountY)
                     topLeft == getImageData(ctx, 0, 0,
                                             sizeX - shiftAmountX, sizeY - shiftAmountY)
                     c1 == putImageData(ctx, topLeft, shiftAmountX, shiftAmountY)
                     c2 == putImageData(c1, topRight, 0, shiftAmountY)
                     c3 == putImageData(c2, bottomLeft, shiftAmountX, 0)
                 IN  [ctx |-> putImageData(c3, bottomRight, 0, 0), err |-> "none"]
        ELSE [ctx |-> ctx, err |-> "none"]

\* The offsets drawn: whole pixel counts and fractions, of either sign.
OffsetValues ==
    {<<0, 1>>, <<1, 1>>, <<2, 1>>, <<3, 1>>, <<-1, 1>>,
     <<1, 2>>, <<-1, 2>>, <<3, 2>>,
     <<1, 3>>, <<2, 3>>, <<-1, 3>>,
     <<1, 4>>, <<3, 4>>}

(***************************************************************************)
(* mask (src/index.js:322-334), on the heap h: base and imageMask are ids. *)
(***************************************************************************)
\* The loop of mask: channelIndexes[channel] is undefined for a string that
\* is no channel, the index i + undefined is NaN, the read yields undefined
\* and the store writes 0.
MaskAlpha(baseData, maskData, channel) ==
    [baseData EXCEPT !.data = [i \in DOMAIN baseData.data |->
        IF i % 4 # 3 THEN baseData.data[i]
        ELSE IF channel \notin Channel THEN 0
        ELSE LET j == (i - 3) + channelIndexes[channel]
             IN  IF j \in DOMAIN maskData.data THEN maskData.data[j] ELSE 0]]

\* mask resizing the base to the mask instead of the mask to the base.
maskResizesBase(h, base, imageMask, channel) ==
    LET resized == IF h[base].width # h[imageMask].width
                      \/ h[base].height # h[imageMask].height
                   THEN resize(h[base], h[imageMask].width, h[imageMask].height)
                   ELSE h[base]
        baseData == getImageData(resized, 0, 0, resized.width, resized.height)
        maskData == getImageData(h[imageMask], 0, 0,
                                 h[imageMask].width, h[imageMask].height)
    IN  [h EXCEPT ![base] =
            putImageData(resized, MaskAlpha(baseData, maskData, channel), 0, 0)]

mask(h, base, imageMask, channel) ==
    LET d == duplicate(h[imageMask])
        maskDupe == IF h[base].width # h[imageMask].width
                       \/ h[base].height # h[imageMask].height
                    THEN resize(d, h[base].width, h[base].height) ELSE d
        baseData == getImageData(h[base], 0, 0, h[base].width, h[base].height)
        maskData == getImageData(maskDupe, 0, 0, maskDupe.width, maskDupe.height)
    IN  [h EXCEPT ![base] =
            putImageData(h[base], MaskAlpha(baseData, maskData, channel), 0, 0)]

(***************************************************************************)
(* unpack (src/index.js:407-444).                                          *)
(***************************************************************************)
\* The loop body filling the A output from each pixel's own alpha byte.
UnpackFrameOwnAlpha(o, i) ==
    [r |-> [o.r EXCEPT ![i + 1] = 0, ![i + 2] = 0, ![i + 3] = 255],
     g |-> [o.g EXCEPT ![i] = 0, ![i + 2] = 0, ![i + 3] = 255],
     b |-> [o.b EXCEPT ![i] = 0, ![i + 1] = 0, ![i + 3] = 255],
     a |-> [o.a EXCEPT ![i] = o.a[i + 3], ![i + 1] = o.a[i + 3],
                       ![i + 2] = o.a[i + 3], ![i + 3] = 255]]

\* One pass of the loop body on the four copies, at byte offset i.  The
\* stores to aImageData are made in order, each reading aImageData.data[3]
\* as it is at that moment.
UnpackFrame(o, i) ==
    LET a1 == [o.a EXCEPT ![i] = o.a[3]]
        a2 == [a1 EXCEPT ![i + 1] = a1[3]]
        a3 == [a2 EXCEPT ![i + 2] = a2[3]]
    IN  [r |-> [o.r EXCEPT ![i + 1] = 0, ![i + 2] = 0, ![i + 3] = 255],
         g |-> [o.g EXCEPT ![i] = 0, ![i + 2] = 0, ![i + 3] = 255],
         b |-> [o.b EXCEPT ![i] = 0, ![i + 1] = 0, ![i + 3] = 255],
         a |-> [a3 EXCEPT ![i + 3] = 255]]

RECURSIVE UnpackFrom(_, _)
UnpackFrom(o, i) ==
    IF i >= DataLength(o.r) THEN o ELSE UnpackFrom(UnpackFrame(o, i), i + 4)

\* unpack leaving the source's alpha in the R, G and B outputs.
unpackKeepsAlpha(ctx) ==
    LET imageData0 == getImageData(ctx, 0, 0, ctx.width, ctx.height)
        o == UnpackFrom([r |-> imageData0.data, g |-> imageData0.data,
                         b |-> imageData0.data, a |-> imageData0.data], 0)
        keep(d) == [i \in DOMAIN d |-> IF i % 4 = 3 THEN imageData0.data[i] ELSE d[i]]
        canvas(d) == putImageData(createCanvas(ctx.width, ctx.height),
                                  [imageData0 EXCEPT !.data = d], 0, 0)
    IN  <<canvas(keep(o.r)), canvas(keep(o.g)), canvas(keep(o.b)), canvas(o.a)>>

\* The four contexts unpack(ctx) returns.
unpack(ctx) ==
    LET imageData0 == getImageData(ctx, 0, 0, ctx.width, ctx.height)
        o == UnpackFrom([r |-> imageData0.data, g |-> imageData0.data,
                         b |-> imageData0.data, a |-> imageData0.data], 0)
        canvas(d) == putImageData(createCanvas(ctx.width, ctx.height),
                                  [imageData0 EXCEPT !.data = d], 0, 0)
    IN  <<canvas(o.r), canvas(o.g), canvas(o.b), canvas(o.a)>>

(***************************************************************************)
(* pack (src/index.js:354-392).                                            *)
(***************************************************************************)
Includes(seq, x) == \E k \in DOMAIN seq : seq[k] = x

\* images.splice(i, 1), counting from 1.
Splice(seq, i) == [k \in 1..(Len(seq) - 1) |-> IF k < i THEN seq[k] ELSE seq[k + 1]]

\* The inner loop of the preparation pass: entries is the array
\* Object.entries returned when the loop began, channels the live object;
\* on a conflict the key deleted is the one named by the entry's VALUE.
RECURSIVE PackClaims(_, _, _, _)
PackClaims(entries, channels, packedChannels, k) ==
    IF k > Len(entries)
    THEN [channels |-> channels, packedChannels |-> packedChannels]
    ELSE IF Includes(packedChannels, entries[k][1])
    THEN PackClaims(entries, DeleteKey(channels, entries[k][2]), packedChannels, k + 1)
    ELSE PackClaims(entries, channels, Append(packedChannels, entries[k][1]), k + 1)

\* The resize of pack applied to the entry's own canvas.
PackResizeInPlace(h, data, sizeX, sizeY) ==
    [heap |-> [h EXCEPT ![data] = resize(h[data], sizeX, sizeY)], data |-> data]

\* images[i].data = duplicate(images[i].data); resize(images[i].data, sizeX,
\* sizeY) (lines 373-374): the duplicate is a new context on the heap, and it
\* is the one resized.
PackResize(h, data, sizeX, sizeY) ==
    [heap |-> Append(h, resize(duplicate(h[data]), sizeX, sizeY)),
     data |-> Len(h) + 1]

\* The preparation pass from index i on (i counts from 1): h is the heap,
\* imgs the images array.  After a splice the loop goes on to i + 1.
RECURSIVE PackPrepare(_, _, _, _, _, _)
PackPrepare(h, imgs, packedChannels, i, sizeX, sizeY) ==
    IF i > Len(imgs) THEN [heap |-> h, images |-> imgs]
    ELSE
      LET c == PackClaims(imgs[i].channels, imgs[i].channels, packedChannels, 1)
          ctx == h[imgs[i].data]
      IN  IF Len(c.channels) = 0
          THEN PackPrepare(h, Splice(imgs, i), c.packedChannels, i + 1, sizeX, sizeY)
          ELSE IF ctx.width # sizeX \/ ctx.height # sizeY
          THEN LET r == PackResize(h, imgs[i].data, sizeX, sizeY)
               IN  PackPrepare(r.heap,
                               [imgs EXCEPT ![i] = [data |-> r.data,
                                                    channels |-> c.channels]],
                               c.packedChannels, i + 1, sizeX, sizeY)
          ELSE PackPrepare(h, [imgs EXCEPT ![i].channels = c.channels],
                           c.packedChannels, i + 1, sizeX, sizeY)

\* packedData.data[i + channelIndexTo] = imagesDatas[i2].data[i + channelIndexFrom]:
\* an index that is no channel makes the array index NaN, so the store does
\* nothing and the read yields undefined, which is stored as 0.
PackWrite(d, src, entry, i) ==
    LET to == entry[1]
        from == entry[2]
    IN  IF to \notin Channel THEN d
        ELSE [d EXCEPT ![i + channelIndexes[to]] =
                 IF from \in Channel /\ (i + channelIndexes[from]) \in DOMAIN src
                 THEN src[i + channelIndexes[from]] ELSE 0]

RECURSIVE PackEntries(_, _, _, _, _)
PackEntries(d, src, channels, k, i) ==
    IF k > Len(channels) THEN d
    ELSE PackEntries(PackWrite(d, src, channels[k], i), src, channels, k + 1, i)

RECURSIVE PackImages(_, _, _, _, _)
PackImages(d, imgs, imagesDatas, i2, i) ==
    IF i2 > Len(imgs) THEN d
    ELSE PackImages(PackEntries(d, imagesDatas[i2].data, imgs[i2].channels, 1, i),
                    imgs, imagesDatas, i2 + 1, i)

RECURSIVE PackPixels(_, _, _, _)
PackPixels(d, imgs, imagesDatas, i) ==
    IF i >= DataLength(d) THEN d
    ELSE PackPixels(PackImages(d, imgs, imagesDatas, 1, i), imgs, imagesDatas, i + 4)

\* pack(images, sizeX, sizeY) on the heap h: the heap and the images array
\* afterwards, and the id of the packed context.  The packed canvas is
\* allocated first, the duplicates after it.
pack(h, imgs, sizeX, sizeY) ==
    LET packed == Len(h) + 1
        packedData == getImageData(createCanvas(sizeX, sizeY), 0, 0, sizeX, sizeY)
        p == PackPrepare(Append(h, createCanvas(sizeX, sizeY)), imgs, <<>>, 1,
                         sizeX, sizeY)
        imagesDatas == [k \in DOMAIN p.images |->
                           getImageData(p.heap[p.images[k].data], 0, 0, sizeX, sizeY)]
        d == PackPixels(packedData.data, p.images, imagesDatas, 0)
    IN  [heap |-> [p.heap EXCEPT ![packed] =
                      putImageData(p.heap[packed],
                                   [packedData EXCEPT !.data = d], 0, 0)],
         images |-> p.images,
         ret |-> <<packed>>]

(***************************************************************************)
(* The calls.                                                              *)
(***************************************************************************)
NoCall == [name |-> "none"]

Snapshot == [heap |-> heap, imageData |-> imageData, images |-> images]

\* swizzle(imageData, options)
Swizzle ==
    /\ call = NoCall
    /\ imageData # NoImageData
    /\ \E options \in ChannelMaps(ChannelNames, ChannelNames, MaxMapLen) :
          /\ \E r \in {swizzle(imageData, options)} :
                /\ imageData' = [imageData EXCEPT !.data = r.data]
                /\ err' = r.err
          /\ call' = [name |-> "swizzle", options |-> options]
    /\ pre' = Snapshot
    /\ UNCHANGED <<heap, images, ret>>

\* The byte offsets of the pixels of a buffer: the i handed to swizzleFrame,
\* bumpScaleFrame and tintFrame.
FrameIndexes(data) == {4 * p : p \in 0..(data.width * data.height - 1)}

\* swizzleFrame(imageData, options, i): one pixel; a throw leaves the writes
\* made before it.
SwizzleFrame ==
    /\ call = NoCall
    /\ imageData # NoImageData
    /\ \E options \in ChannelMaps(ChannelNames, ChannelNames, MaxMapLen),
          i \in FrameIndexes(imageData) :
          /\ \E r \in {swizzleFrame(imageData.data, options, i)} :
                /\ imageData' = [imageData EXCEPT !.data = r.data]
                /\ err' = r.err
          /\ call' = [name |-> "swizzleFrame", options |-> options, i |-> i]
    /\ pre' = Snapshot
    /\ UNCHANGED <<heap, images, ret>>

InitSwizzle ==
    /\ imageData \in ImageDatas(MaxW, 1)
    /\ heap = <<>>
    /\ images = <<>>
    /\ ret = <<>>
    /\ err = "none"
    /\ call = NoCall
    /\ pre = Snapshot

NextSwizzle == Swizzle \/ SwizzleFrame

SpecSwizzle == InitSwizzle /\ [][NextSwizzle]_vars

\* The buffers handed to bumpScale and tint: every buffer of up to MaxW
\* palette pixels, and every single pixel over the bytes 0, 100 and 255.
ByteSamples == {0, 100, 255}

PixelImages ==
    ImageDatas(MaxW, 1) \cup
    {[width |-> 1, height |-> 1, data |-> Flat(1, 1, [p \in {0} |-> <<r, g, b, a>>])] :
        r \in ByteSamples, g \in ByteSamples, b \in ByteSamples, a \in ByteSamples}

\* The multipliers handed to tint: the documented range 0..255, one above
\* it, and negative ones down to -255.
Multipliers == {-255, -128, 0, 128, 255, 300}

\* The intensities handed to tint: 1 (the default) and 2.
Intensities == {1, 2}

\* The scales handed to bumpScale.
Scales == {<<0, 1>>, <<1, 4>>, <<1, 2>>, <<1, 1>>, <<3, 2>>, <<2, 1>>, <<-1, 1>>}

Tint ==
    /\ call = NoCall
    /\ \E r \in Multipliers, g \in Multipliers, b \in Multipliers, int \in Intensities :
          /\ imageData' = [imageData EXCEPT !.data = tint(imageData, r, g, b, int)]
          /\ call' = [name |-> "tint", r |-> r, g |-> g, b |-> b, int |-> int]
    /\ pre' = Snapshot
    /\ UNCHANGED <<heap, images, ret, err>>

BumpScale ==
    /\ call = NoCall
    /\ \E factor \in Scales :
          /\ imageData' = [imageData EXCEPT !.data = bumpScale(imageData, factor)]
          /\ call' = [name |-> "bumpScale", scale |-> factor]
    /\ pre' = Snapshot
    /\ UNCHANGED <<heap, images, ret, err>>

\* tintFrame(imageData, r, g, b, int, i): one pixel
TintFrame ==
    /\ call = NoCall
    /\ \E r \in Multipliers, g \in Multipliers, b \in Multipliers,
          int \in Intensities, i \in FrameIndexes(imageData) :
          /\ imageData' = [imageData EXCEPT
                              !.data = tintFrame(imageData.data, r, g, b, int, i)]
          /\ call' = [name |-> "tintFrame", r |-> r, g |-> g, b |-> b,
                      int |-> int, i |-> i]
    /\ pre' = Snapshot
    /\ UNCHANGED <<heap, images, ret, err>>

\* bumpScaleFrame(imageData, scale, i): one pixel
BumpScaleFrame ==
    /\ call = NoCall
    /\ \E factor \in Scales, i \in FrameIndexes(imageData) :
          /\ imageData' = [imageData EXCEPT
                              !.data = bumpScaleFrame(imageData.data, factor, i)]
          /\ call' = [name |-> "bumpScaleFrame", scale |-> factor, i |-> i]
    /\ pre' = Snapshot
    /\ UNCHANGED <<heap, images, ret, err>>

InitPixel ==
    /\ imageData \in PixelImages
    /\ heap = <<>>
    /\ images = <<>>
    /\ ret = <<>>
    /\ err = "none"
    /\ call = NoCall
    /\ pre = Snapshot

NextPixel == Tint \/ BumpScale \/ TintFrame \/ BumpScaleFrame

SpecPixel == InitPixel /\ [][NextPixel]_vars

\* The arguments handed to hdrToSdr: bytes, and parameters that are
\* negative, zero, fractional and above 1, the defaults among them.
HdrBytes == {0, 128, 255}

HdrIntensities == {<<-1, 1>>, <<0, 1>>, <<1, 1>>, <<2, 1>>}

HdrExposures == {<<1, 1>>, <<-2, 1>>}

HdrContrasts == {<<1, 1>>, <<1, 2>>, <<2, 1>>, <<0, 1>>, <<-1, 1>>}

HdrSaturations == {<<1, 1>>, <<0, 1>>, <<-1, 1>>}

HdrCompressions == {<<1, 1>>, <<-1, 1>>}

HdrLiftings == {<<0, 1>>, <<1, 10>>, <<-1, 1>>}

HdrToSdr ==
    /\ call = NoCall
    /\ \E r \in HdrBytes, g \in HdrBytes, b \in HdrBytes,
          intensity \in HdrIntensities, exposure \in HdrExposures,
          contrast \in HdrContrasts, saturation \in HdrSaturations,
          highlightCompression \in HdrCompressions, shadowLifting \in HdrLiftings :
          /\ ret' = hdrToSdr(r, g, b, intensity, exposure, contrast, saturation,
                             highlightCompression, shadowLifting)
          /\ call' = [name |-> "hdrToSdr", r |-> r, g |-> g, b |-> b,
                      intensity |-> intensity, exposure |-> exposure,
                      contrast |-> contrast, saturation |-> saturation,
                      highlightCompression |-> highlightCompression,
                      shadowLifting |-> shadowLifting]
    /\ pre' = Snapshot
    /\ UNCHANGED <<heap, imageData, images, err>>

InitHdr ==
    /\ imageData = NoImageData
    /\ heap = <<>>
    /\ images = <<>>
    /\ ret = <<>>
    /\ err = "none"
    /\ call = NoCall
    /\ pre = Snapshot

NextHdr == HdrToSdr

SpecHdr == InitHdr /\ [][NextHdr]_vars

\* A second swizzle(data, options) with the same map on the buffer a first
\* call has returned from; pre stays the snapshot taken before the first.
SwizzleAgain ==
    /\ call.name = "swizzle" /\ err = "none"
    /\ \E r \in {swizzle(imageData, call.options)} :
          /\ imageData' = [imageData EXCEPT !.data = r.data]
          /\ err' = r.err
    /\ call' = [name |-> "swizzleTwice", options |-> call.options]
    /\ UNCHANGED <<heap, images, ret, pre>>

NextSwizzleTwice == Swizzle \/ SwizzleAgain

SpecSwizzleTwice == InitSwizzle /\ [][NextSwizzleTwice]_vars

\* offset(ctx, offsetX, offsetY) on context 1
Offset ==
    /\ call = NoCall
    /\ \E offsetX \in OffsetValues, offsetY \in OffsetValues :
          /\ \E r \in {offset(heap[1], offsetX, offsetY)} :
                /\ heap' = [heap EXCEPT ![1] = r.ctx]
                /\ err' = r.err
          /\ call' = [name |-> "offset", offsetX |-> offsetX, offsetY |-> offsetY]
    /\ pre' = Snapshot
    /\ UNCHANGED <<imageData, images, ret>>

\* flip(ctx, direction) on context 1
Flip ==
    /\ call = NoCall
    /\ \E direction \in Direction :
          /\ heap' = [heap EXCEPT ![1] = flip(heap[1], direction)]
          /\ call' = [name |-> "flip", direction |-> direction]
    /\ pre' = Snapshot
    /\ UNCHANGED <<imageData, images, ret, err>>

\* unpack(ctx) on context 1: the four new contexts get the next four ids
Unpack ==
    /\ call = NoCall
    /\ heap' = heap \o unpack(heap[1])
    /\ ret' = <<Len(heap) + 1, Len(heap) + 2, Len(heap) + 3, Len(heap) + 4>>
    /\ call' = [name |-> "unpack"]
    /\ pre' = Snapshot
    /\ UNCHANGED <<imageData, images, err>>

\* An optional argument: <<>> when the caller omits it, <<v>> when supplied.
Optional(S) == {<<>>} \cup {<<v>> : v \in S}

\* The value the function body sees: an omitted argument is undefined, which
\* every test the library makes of it (!newY) treats as it treats 0.
Arg(opt) == IF opt = <<>> THEN 0 ELSE opt[1]

\* duplicate(ctx) of context 1: the new context gets the next id
Duplicate ==
    /\ call = NoCall
    /\ heap' = Append(heap, duplicate(heap[1]))
    /\ ret' = <<Len(heap) + 1>>
    /\ call' = [name |-> "duplicate"]
    /\ pre' = Snapshot
    /\ UNCHANGED <<imageData, images, err>>

\* The colour and the rectangle arguments handed to fill.
FillColours == {<<1, 2, 3>>}

FillCoordinates == {1}

\* fill(ctx, r, g, b, x, y, z, h) on context 1, as the first call or after a
\* flip, whose matrix the rectangle is then drawn under
Fill ==
    /\ call = NoCall \/ call.name = "flip"
    /\ \E colour \in FillColours,
          x \in Optional(FillCoordinates), y \in Optional(FillCoordinates),
          z \in Optional(FillCoordinates), h \in Optional(FillCoordinates) :
          /\ heap' = [heap EXCEPT ![1] = fill(heap[1], colour[1], colour[2],
                                              colour[3], x, y, z, h)]
          /\ call' = [name |-> "fill", r |-> colour[1], g |-> colour[2],
                      b |-> colour[3], x |-> x, y |-> y, z |-> z, h |-> h]
    /\ pre' = Snapshot
    /\ UNCHANGED <<imageData, images, ret, err>>

InitCanvas ==
    /\ \E c \in Contexts(MaxW, MaxH) : heap = <<c>>
    /\ imageData = NoImageData
    /\ images = <<>>
    /\ ret = <<>>
    /\ err = "none"
    /\ call = NoCall
    /\ pre = Snapshot

NextCanvas == Flip \/ Unpack \/ Duplicate \/ Fill

SpecCanvas == InitCanvas /\ [][NextCanvas]_vars

NextOffset == Offset

SpecOffset == InitCanvas /\ [][NextOffset]_vars

\* resize(heap[1], newX, newY), taken one statement group at a time; the
\* staging canvas is heap[2].  Lines 258-270: newY is settled, the pixels are
\* read and put on a new canvas of the old dimensions.
ResizeStage ==
    /\ call = NoCall
    /\ \E newX \in (-MaxNew..MaxNew) \ {0}, newY \in Optional(-MaxNew..MaxNew) :
          call' = [name |-> "resize", newX |-> newX, newY |-> newY,
                   absX |-> Abs(newX),
                   absY |-> Abs(ResizeHeight(heap[1], newX, Arg(newY))),
                   at |-> "staged"]
    /\ heap' = <<heap[1], ResizeStaging(heap[1])>>
    /\ pre' = Snapshot
    /\ UNCHANGED <<imageData, images, ret, err>>

\* Lines 272-273: ctx.canvas.width = absX; ctx.canvas.height = absY.
ResizeSetSize ==
    /\ call.name = "resize" /\ call.at = "staged"
    /\ heap' = [heap EXCEPT ![1] = setSize(heap[1], call.absX, call.absY)]
    /\ call' = [call EXCEPT !.at = "cleared"]
    /\ UNCHANGED <<imageData, images, ret, err, pre>>

\* Line 274: ctx.drawImage(newCanvas.canvas, 0, 0, absX, absY).
ResizeDraw ==
    /\ call.name = "resize" /\ call.at = "cleared"
    /\ heap' = [heap EXCEPT ![1] = drawImage(heap[1], heap[2], call.absX, call.absY)]
    /\ call' = [call EXCEPT !.at = "drawn"]
    /\ UNCHANGED <<imageData, images, ret, err, pre>>

InitResize ==
    /\ \E c \in Contexts(ResizeMaxW, ResizeMaxH) : heap = <<c>>
    /\ imageData = NoImageData
    /\ images = <<>>
    /\ ret = <<>>
    /\ err = "none"
    /\ call = NoCall
    /\ pre = Snapshot

NextResize == ResizeStage \/ ResizeSetSize \/ ResizeDraw

SpecResize == InitResize /\ [][NextResize]_vars

\* tile(heap[1], tileX, tileY, size, sizeY); the default parameter
\* sizeY = size applies when sizeY is omitted.  The grid canvas part is kept
\* as heap[2].
Tile ==
    /\ call = NoCall
    /\ \E tileX, tileY \in 1..MaxTile, size \in 1..MaxSize,
          sizeY \in Optional(1..MaxSize) :
          LET sY == IF sizeY = <<>> THEN size ELSE sizeY[1]
          IN  /\ \E r \in {tile(heap[1], tileX, tileY, size, sY)} :
                    /\ heap' = <<r.ctx, r.part>>
                    /\ err' = r.err
              /\ call' = [name |-> "tile", tileX |-> tileX, tileY |-> tileY,
                          size |-> size, sizeY |-> sizeY]
    /\ pre' = Snapshot
    /\ UNCHANGED <<imageData, images, ret>>

NextTile == Tile

SpecTile == InitResize /\ [][NextTile]_vars

\* mask(base, imageMask, channel): base is context 1, imageMask context 2
Mask ==
    /\ call = NoCall
    /\ Len(heap) >= 2
    /\ \E channel \in ChannelNames :
          /\ heap' = mask(heap, 1, 2, channel)
          /\ call' = [name |-> "mask", channel |-> channel]
    /\ pre' = Snapshot
    /\ UNCHANGED <<imageData, images, ret, err>>

InitMask ==
    /\ \E b \in Contexts(MaskMaxW, MaskMaxH), m \in Contexts(MaskMaxW, MaskMaxH) :
          heap = <<b, m>>
    /\ imageData = NoImageData
    /\ images = <<>>
    /\ ret = <<>>
    /\ err = "none"
    /\ call = NoCall
    /\ pre = Snapshot

NextMask == Mask

SpecMask == InitMask /\ [][NextMask]_vars

\* pack(images, sizeX, sizeY); sizeY defaults to sizeX when omitted
Pack ==
    /\ call = NoCall
    /\ \E sizeX \in 1..PackMaxSize, sizeY \in 0..PackMaxSize :
          /\ sizeY # sizeX
          /\ \E r \in {pack(heap, images, sizeX, IF sizeY = 0 THEN sizeX ELSE sizeY)} :
                /\ heap' = r.heap
                /\ images' = r.images
                /\ ret' = r.ret
          /\ call' = [name |-> "pack", sizeX |-> sizeX,
                      sizeY |-> IF sizeY = 0 THEN sizeX ELSE sizeY]
    /\ pre' = Snapshot
    /\ UNCHANGED <<imageData, err>>

\* The names used in the channel maps handed to pack.
PackNames == {"R", "G", "X"}

\* Entry k of the images array holds context k, a 1 x 1 canvas.
InitPack ==
    /\ \E n \in 0..MaxImages :
          /\ heap \in [1..n -> Contexts(1, 1)]
          /\ \E maps \in [1..n -> ChannelMaps(PackNames, PackNames, MaxMapLen)] :
                images = [k \in 1..n |-> [data |-> k, channels |-> maps[k]]]
    /\ imageData = NoImageData
    /\ ret = <<>>
    /\ err = "none"
    /\ call = NoCall
    /\ pre = Snapshot

NextPack == Pack \/ Mask

SpecPack == InitPack /\ [][NextPack]_vars

\* Up to MaxImages entries of one valid pair each, on 1x1 canvases.
InitPackFrame ==
    /\ \E n \in 0..MaxImages :
          /\ heap \in [1..n -> Contexts(1, 1)]
          /\ \E maps \in [1..n -> MapsOfLen({"R", "G"}, {"R", "G"}, 1)] :
                images = [k \in 1..n |-> [data |-> k, channels |-> maps[k]]]
    /\ imageData = NoImageData
    /\ ret = <<>>
    /\ err = "none"
    /\ call = NoCall
    /\ pre = Snapshot

NextPackFrame == Pack

SpecPackFrame == InitPackFrame /\ [][NextPackFrame]_vars

\* unpack(packed) on the canvas a pack call has just returned; pre stays the
\* snapshot taken before that pack call.
UnpackPacked ==
    /\ call.name = "pack"
    /\ heap' = heap \o unpack(heap[ret[1]])
    /\ ret' = <<Len(heap) + 1, Len(heap) + 2, Len(heap) + 3, Len(heap) + 4>>
    /\ call' = [name |-> "unpackPacked", packed |-> ret[1],
                sizeX |-> call.sizeX, sizeY |-> call.sizeY]
    /\ UNCHANGED <<imageData, images, err, pre>>

\* The one-to-one assignments of the four destinations to four entries.
OneToOne(S) == {f \in [1..Cardinality(S) -> S] :
                  \A a, b \in DOMAIN f : f[a] = f[b] => a = b}

\* Four canvases of one colour each, entry k writing one destination of its
\* own from one of its channels.
InitRoundTrip ==
    /\ heap \in [1..4 -> Contexts(1, 1)]
    /\ \E to \in OneToOne(Channel), from \in [1..4 -> {"R", "A"}] :
          images = [k \in 1..4 |->
                      [data |-> k, channels |-> << <<to[k], from[k]>> >>]]
    /\ imageData = NoImageData
    /\ ret = <<>>
    /\ err = "none"
    /\ call = NoCall
    /\ pre = Snapshot

NextRoundTrip == Pack \/ UnpackPacked

SpecRoundTrip == InitRoundTrip /\ [][NextRoundTrip]_vars

(***************************************************************************)
(* Claims about swizzle.                                                   *)
(***************************************************************************)
Pixels(img) == 0..(img.width * img.height - 1)

ValidMap(m) == \A k \in DOMAIN m : m[k][1] \in Channel /\ m[k][2] \in Channel

SwizzleCalled == call.name = "swizzle"

\* The call swizzle(buf, {K: V}) with K and V two different channels.
SwizzleOnePair ==
    /\ SwizzleCalled
    /\ Len(call.options) = 1
    /\ ValidMap(call.options)
    /\ call.options[1][1] # call.options[1][2]

\* C2 as stated: after swizzle(buf, {K: V}) with K and V distinct channels,
\* every pixel's channel K holds the pixel's pre-call channel V and channel V
\* is unchanged (the key is the destination, as in pack).
C2_KeyIsDestination ==
    SwizzleOnePair =>
        LET K == channelIndexes[call.options[1][1]]
            V == channelIndexes[call.options[1][2]]
        IN  \A p \in Pixels(imageData) :
                /\ imageData.data[4 * p + K] = pre.imageData.data[4 * p + V]
                /\ imageData.data[4 * p + V] = pre.imageData.data[4 * p + V]

\* C2 amended: after swizzle(buf, {K: V}) with K and V distinct channels,
\* every pixel's channel V holds the pixel's pre-call channel K, and channel
\* K and the two other channels are unchanged (the key is the source, the
\* value the destination: the opposite of pack).
C2_KeyIsSource ==
    SwizzleOnePair =>
        LET K == channelIndexes[call.options[1][1]]
            V == channelIndexes[call.options[1][2]]
        IN  /\ err = "none"
            /\ \A p \in Pixels(imageData) : \A c \in 0..3 :
                  imageData.data[4 * p + c] =
                      pre.imageData.data[4 * p + (IF c = V THEN K ELSE c)]

C2_Witness ==
    /\ SwizzleOnePair
    /\ call.options = << <<"R", "B">> >>
    /\ imageData.data[2] = pre.imageData.data[0]
    /\ imageData.data[2] # pre.imageData.data[2]

\* The entries of a map that write channel c, and the last of them.
Writers(m, c) == {k \in DOMAIN m : m[k][2] = c}

LastWriter(m, c) == CHOOSE k \in Writers(m, c) : \A j \in Writers(m, c) : j <= k

\* C3: swizzleFrame reads the four channels of the pixel before it writes:
\* for every map of channels, chains and swaps included, each channel some
\* entry writes ends with the PRE-call value of the channel the last such
\* entry copies from, and every other channel keeps its pre-call value.
C3_ReadsBeforeWrites ==
    (SwizzleCalled /\ ValidMap(call.options)) =>
        /\ err = "none"
        /\ \A p \in Pixels(imageData) : \A c \in Channel :
              imageData.data[4 * p + channelIndexes[c]] =
                  IF Writers(call.options, c) = {}
                  THEN pre.imageData.data[4 * p + channelIndexes[c]]
                  ELSE pre.imageData.data[4 * p + channelIndexes[
                           call.options[LastWriter(call.options, c)][1]]]

\* A chained map: R goes to G and G goes to B; B receives the old G.
C3_Witness ==
    /\ SwizzleCalled
    /\ call.options = << <<"R", "G">>, <<"G", "B">> >>
    /\ imageData.data[1] = pre.imageData.data[0]
    /\ imageData.data[2] = pre.imageData.data[1]
    /\ imageData.data[2] # imageData.data[1]

\* C9 as stated: a swizzle whose map names a string that is no channel, as
\* destination or as source, throws; the bytes that differ from the input
\* all lie in the first pixel.
C9_SwizzleRejectsInvalidChannel ==
    (SwizzleCalled /\ ~ValidMap(call.options)) =>
        /\ err # "none"
        /\ \A i \in DOMAIN imageData.data :
              i >= 4 => imageData.data[i] = pre.imageData.data[i]

(***************************************************************************)
(* Claims about unpack, offset and flip (SpecCanvas).                      *)
(***************************************************************************)
Columns(c) == 0..(c.width - 1)

Rows(c) == 0..(c.height - 1)

SameSize(c, d) == c.width = d.width /\ c.height = d.height

UnpackCalled == call.name = "unpack"

\* C4 as stated: unpack returns four buffers of the source's dimensions; in
\* output c (R, G, B, A order) the R, G and B bytes of every pixel all equal
\* channel c of the same source pixel and the alpha byte is 255; the source
\* is not modified.
C4_UnpackGrayscale ==
    UnpackCalled =>
        /\ Len(ret) = 4
        /\ heap[1] = pre.heap[1]
        /\ \A c \in 0..3 :
              /\ SameSize(heap[ret[c + 1]], pre.heap[1])
              /\ \A x \in Columns(pre.heap[1]), y \in Rows(pre.heap[1]) :
                    /\ \A k \in 0..2 :
                          At(heap[ret[c + 1]], x, y, k) = At(pre.heap[1], x, y, c)
                    /\ At(heap[ret[c + 1]], x, y, 3) = 255

\* C4 amended: unpack returns four buffers of the source's dimensions whose
\* alpha byte is 255 at every pixel; for c one of R, G, B, output c holds
\* channel c of the same source pixel in its own channel c and 0 in its two
\* other colour channels (a one-channel image, not a grayscale one); in the
\* A output R = G = B at every pixel; the source is not modified.
C4_UnpackSingleChannel ==
    UnpackCalled =>
        /\ Len(ret) = 4
        /\ heap[1] = pre.heap[1]
        /\ \A c \in 0..3 :
              /\ SameSize(heap[ret[c + 1]], pre.heap[1])
              /\ \A x \in Columns(pre.heap[1]), y \in Rows(pre.heap[1]) :
                    /\ At(heap[ret[c + 1]], x, y, 3) = 255
                    /\ c < 3 => \A k \in 0..2 :
                          At(heap[ret[c + 1]], x, y, k) =
                              IF k = c THEN At(pre.heap[1], x, y, c) ELSE 0
                    /\ c = 3 => \A k \in 0..2 :
                          At(heap[ret[4]], x, y, k) = At(heap[ret[4]], x, y, 0)

\* The G output of a two-pixel source: G kept, R and B zeroed, alpha 255.
C4_Witness ==
    /\ UnpackCalled
    /\ pre.heap[1].width = 2
    /\ heap[ret[2]].data[5] = pre.heap[1].data[5]
    /\ heap[ret[2]].data[5] # 0
    /\ heap[ret[2]].data[4] = 0
    /\ pre.heap[1].data[4] # 0
    /\ heap[ret[2]].data[7] = 255
    /\ pre.heap[1].data[7] # 255

OffsetCalled == call.name = "offset"

IsWhole(q) == q[2] = 1

\* C5 as stated: offsets are pixel counts; offset(ctx, k, 0) with an integer
\* k moves the content of every column x to column (x + k) mod W, and
\* offset(ctx, 0, k) moves every row y to row (y + k) mod H.
C5_OffsetInPixels ==
    /\ (OffsetCalled /\ IsWhole(call.offsetX) /\ call.offsetY = <<0, 1>>) =>
          /\ err = "none"
          /\ SameSize(heap[1], pre.heap[1])
          /\ \A x \in Columns(pre.heap[1]), y \in Rows(pre.heap[1]) :
                PixelAt(heap[1], (x + call.offsetX[1]) % pre.heap[1].width, y)
                    = PixelAt(pre.heap[1], x, y)
    /\ (OffsetCalled /\ IsWhole(call.offsetY) /\ call.offsetX = <<0, 1>>) =>
          /\ err = "none"
          /\ SameSize(heap[1], pre.heap[1])
          /\ \A x \in Columns(pre.heap[1]), y \in Rows(pre.heap[1]) :
                PixelAt(heap[1], x, (y + call.offsetY[1]) % pre.heap[1].height)
                    = PixelAt(pre.heap[1], x, y)

\* The call applied a shift: an offset was not whole and nothing was thrown.
OffsetShifted ==
    /\ OffsetCalled
    /\ err = "none"
    /\ Normalized(call.offsetX) # 0 \/ Normalized(call.offsetY) # 0

\* C6 as stated: whenever offset applies a shift (sx, sy), on one axis or on
\* both, the pixel that was at (x, y) ends at ((x + sx) mod W, (y + sy) mod H)
\* and the canvas keeps its dimensions: no pixel is lost, duplicated, left
\* stale or replaced by blank data.
C6_OffsetLossless ==
    OffsetShifted =>
        LET W == pre.heap[1].width
            H == pre.heap[1].height
            sx == ShiftAmount(W, call.offsetX)
            sy == ShiftAmount(H, call.offsetY)
        IN  /\ SameSize(heap[1], pre.heap[1])
            /\ \A x \in Columns(pre.heap[1]), y \in Rows(pre.heap[1]) :
                  PixelAt(heap[1], (x + sx) % W, (y + sy) % H)
                      = PixelAt(pre.heap[1], x, y)

FlipCalled == call.name = "flip"

\* C10 as stated: after flip(ctx, "horizontal") the pixel at (x, y) equals the
\* pre-call pixel at (W-1-x, y), after flip(ctx, "vertical") the pre-call
\* pixel at (x, H-1-y); the dimensions are unchanged.
C10_FlipMirrors ==
    FlipCalled =>
        LET W == pre.heap[1].width
            H == pre.heap[1].height
        IN  /\ SameSize(heap[1], pre.heap[1])
            /\ \A x \in Columns(pre.heap[1]), y \in Rows(pre.heap[1]) :
                  PixelAt(heap[1], x, y) =
                      IF call.direction = "horizontal"
                      THEN PixelAt(pre.heap[1], W - 1 - x, y)
                      ELSE PixelAt(pre.heap[1], x, H - 1 - y)

(***************************************************************************)
(* Claims about mask and pack (SpecMask, SpecPack).                        *)
(***************************************************************************)
MaskCalled == call.name = "mask"

\* The copy of the mask whose channel mask is to sample: the mask itself
\* when it has the base's dimensions, else a copy resized to them.
MaskAsSampled ==
    IF SameSize(pre.heap[1], pre.heap[2]) THEN pre.heap[2]
    ELSE resize(duplicate(pre.heap[2]), pre.heap[1].width, pre.heap[1].height)

\* C7: after mask(base, imageMask, ch) with ch a channel, base has the
\* dimensions it had and the R, G, B it had at every pixel, the alpha of each
\* base pixel is channel ch of the pixel at the same position of imageMask
\* (of a copy resized to base's dimensions when the dimensions differ), and
\* imageMask has the dimensions and the pixels it had.
C7_MaskSetsAlpha ==
    (MaskCalled /\ call.channel \in Channel) =>
        /\ err = "none"
        /\ SameSize(heap[1], pre.heap[1])
        /\ heap[2] = pre.heap[2]
        /\ \A x \in Columns(pre.heap[1]), y \in Rows(pre.heap[1]) :
              /\ \A k \in 0..2 : At(heap[1], x, y, k) = At(pre.heap[1], x, y, k)
              /\ At(heap[1], x, y, 3) =
                     At(MaskAsSampled, x, y, channelIndexes[call.channel])

\* A two-pixel base masked by the B channel of a one-pixel mask: both base
\* pixels get the mask's B as alpha, which is not the alpha they had.
C7_Witness ==
    /\ MaskCalled
    /\ call.channel = "B"
    /\ pre.heap[1].width = 2
    /\ pre.heap[2].width = 1
    /\ heap[1].data[3] = pre.heap[2].data[2]
    /\ heap[1].data[7] = pre.heap[2].data[2]
    /\ heap[1].data[7] # pre.heap[1].data[7]
    /\ heap[1].data[4] = pre.heap[1].data[4]

PackCalled == call.name = "pack"

AllValidMaps(imgs) == \A k \in DOMAIN imgs : ValidMap(imgs[k].channels)

\* The entries of the array that declare destination channel D.
Claimants(imgs, D) == {k \in DOMAIN imgs : HasKey(imgs[k].channels, D)}

FirstClaimant(imgs, D) ==
    CHOOSE k \in Claimants(imgs, D) : \A j \in Claimants(imgs, D) : k <= j

\* The source channel a map declares for destination D.
SourceOf(m, D) == m[CHOOSE a \in DOMAIN m : m[a][1] = D][2]

\* The pixels pack is to sample from a context: the context's own when it
\* has the target size, else those of a copy resized to the target size.
Sampled(ctx, sizeX, sizeY) ==
    IF ctx.width = sizeX /\ ctx.height = sizeY THEN ctx
    ELSE resize(duplicate(ctx), sizeX, sizeY)

\* C1 as stated: when two entries of the list declare the same destination
\* channel D, every pixel of the packed buffer holds in channel D the value
\* sampled from the source channel the EARLIER entry declares for D; the
\* later claim contributes nothing.
C1_FirstClaimantWins ==
    (PackCalled /\ AllValidMaps(pre.images)) =>
        \A D \in Channel :
            Cardinality(Claimants(pre.images, D)) >= 2 =>
                LET e == pre.images[FirstClaimant(pre.images, D)]
                    from == SourceOf(e.channels, D)
                    src == Sampled(pre.heap[e.data], call.sizeX, call.sizeY)
                    packed == heap[ret[1]]
                IN  \A x \in Columns(packed), y \in Rows(packed) :
                        At(packed, x, y, channelIndexes[D])
                            = At(src, x, y, channelIndexes[from])

\* C8 as stated: mask with a channel that is none of R, G, B, A, and pack
\* with an entry whose map names such a destination or source, end in an
\* error, and mask writes no alpha from the coerced index.
C8_FailsFastOnInvalidChannel ==
    /\ (MaskCalled /\ call.channel \notin Channel) =>
          (err # "none" /\ heap[1] = pre.heap[1])
    /\ (PackCalled /\ ~AllValidMaps(pre.images)) => err # "none"

\* The two halves of C8, each refuted on its own.
C8_MaskRejectsInvalidChannel ==
    (MaskCalled /\ call.channel \notin Channel) => err # "none"

C8_PackRejectsInvalidChannel ==
    (PackCalled /\ ~AllValidMaps(pre.images)) => err # "none"

(***************************************************************************)
(* resize (src/index.js:257-275).                                          *)
(***************************************************************************)
ResizeCalled == call.name = "resize"

\* The pixel of the old canvas that nearest-neighbour scaling shows at (x, y)
\* of a canvas of the dimensions of new.
ScaledFrom(old, new, x, y, c) ==
    At(old, (x * old.width) \div new.width, (y * old.height) \div new.height, c)

\* C11: resize never loses the image.  While and after the pixels are read
\* the staging canvas has the OLD dimensions and holds the pre-call pixels,
\* and the canvas is untouched until then; the dimensions change only
\* afterwards, which leaves the canvas cleared at its new size; the final
\* draw leaves at every pixel the pre-call pixel that scaling maps there,
\* so a resize to the current dimensions changes no byte.
C11_ResizeKeepsImage ==
    ResizeCalled =>
        LET old == pre.heap[1]
            ctx == heap[1]
            staging == heap[2]
        IN  /\ SameSize(staging, old) /\ staging.data = old.data
            /\ call.at = "staged" => ctx = old
            /\ call.at = "cleared" =>
                  /\ ctx.width = call.absX /\ ctx.height = call.absY
                  /\ \A i \in DOMAIN ctx.data : ctx.data[i] = 0
            /\ call.at = "drawn" =>
                  /\ ctx.width = call.absX /\ ctx.height = call.absY
                  /\ \A x \in Columns(ctx), y \in Rows(ctx), c \in 0..3 :
                        At(ctx, x, y, c) = ScaledFrom(old, ctx, x, y, c)
                  /\ SameSize(ctx, old) => ctx.data = old.data
                  /\ ctx = resize(old, call.newX, Arg(call.newY))

\* A finished resize to other dimensions of a canvas with two different
\* pixels, both of which the result still shows.
C11_Witness ==
    /\ ResizeCalled /\ call.at = "drawn"
    /\ ~SameSize(heap[1], pre.heap[1])
    /\ \E p, q \in Pixels(pre.heap[1]), x, y \in Pixels(heap[1]) :
          /\ PixelAt(pre.heap[1], p, 0) # PixelAt(pre.heap[1], q, 0)
          /\ PixelAt(heap[1], x, 0) = PixelAt(pre.heap[1], p, 0)
          /\ PixelAt(heap[1], y, 0) = PixelAt(pre.heap[1], q, 0)

\* C19: resize leaves the canvas at the requested size: |newX| wide, and
\* |newY| high for any supplied newY, |round(oldHeight * newX / oldWidth)|
\* high when newY is omitted.
C19_ResizeDimensions ==
    (ResizeCalled /\ call.at = "drawn") =>
        LET old == pre.heap[1]
        IN  /\ heap[1].width = Abs(call.newX)
            /\ heap[1].height =
                  IF call.newY # <<>> THEN Abs(call.newY[1])
                  ELSE Abs(Round(old.height * call.newX, old.width))

(***************************************************************************)
(* tile (src/index.js:182-198).                                            *)
(***************************************************************************)
TileCalled == call.name = "tile"

\* C12: tile ends with the canvas at exactly size x sizeY (sizeY = size when
\* omitted); the grid it draws from measures floor(size / tileX) * tileX by
\* floor(sizeY / tileY) * tileY, never more than size x sizeY, and each of
\* its tileX * tileY cells holds the source resized to
\* floor(size / tileX) x floor(sizeY / tileY).
C12_TileGrid ==
    TileCalled =>
        LET sizeY == IF call.sizeY = <<>> THEN call.size ELSE call.sizeY[1]
            sX == call.size \div call.tileX
            sY == sizeY \div call.tileY
            part == heap[2]
            cell == resize(pre.heap[1], sX, sY)
        IN  /\ err = "none"
            /\ heap[1].width = call.size /\ heap[1].height = sizeY
            /\ part.width = sX * call.tileX /\ part.height = sY * call.tileY
            /\ part.width <= call.size /\ part.height <= sizeY
            /\ \A cx \in 0..(call.tileX - 1), cy \in 0..(call.tileY - 1) :
                  \A x \in 0..(sX - 1), y \in 0..(sY - 1), c \in 0..3 :
                     At(part, cx * sX + x, cy * sY + y, c) = At(cell, x, y, c)

(***************************************************************************)
(* pack followed by unpack (src/index.js:354-444).                         *)
(***************************************************************************)
\* C13: packing four constant-colour buffers into R, G, B and A (one
\* destination per entry) and unpacking the result yields four buffers, each
\* uniformly gray (R = G = B) at the constant packed into that channel, with
\* alpha 255.
C13_PackUnpackInverse ==
    call.name = "unpackPacked" =>
        \A k \in DOMAIN pre.images :
            LET to == pre.images[k].channels[1][1]
                from == pre.images[k].channels[1][2]
                constant == At(pre.heap[pre.images[k].data], 0, 0, channelIndexes[from])
                out == heap[ret[channelIndexes[to] + 1]]
            IN  \A x \in Columns(out), y \in Rows(out) :
                    /\ \A c \in 0..2 : At(out, x, y, c) = constant
                    /\ At(out, x, y, 3) = 255

(***************************************************************************)
(* swizzle applied twice (src/index.js:25-65).                             *)
(***************************************************************************)
\* The map { R: "B", B: "R" }, in either order of its entries.
SwapRB == {<< <<"R", "B">>, <<"B", "R">> >>, << <<"B", "R">>, <<"R", "B">> >>}

\* C14: one swizzle with { R: "B", B: "R" } exchanges R and B of every pixel
\* and leaves G and A as they were; a second one restores the original
\* buffer byte for byte.
C14_SwizzleRoundTrip ==
    /\ (SwizzleCalled /\ call.options \in SwapRB) =>
          /\ err = "none"
          /\ \A p \in Pixels(imageData) :
                /\ imageData.data[4 * p] = pre.imageData.data[4 * p + 2]
                /\ imageData.data[4 * p + 2] = pre.imageData.data[4 * p]
                /\ imageData.data[4 * p + 1] = pre.imageData.data[4 * p + 1]
                /\ imageData.data[4 * p + 3] = pre.imageData.data[4 * p + 3]
    /\ (call.name = "swizzleTwice" /\ call.options \in SwapRB) =>
          /\ err = "none"
          /\ imageData = pre.imageData

\* The second swap has run on a buffer of two pixels of different colours.
C14_Witness ==
    /\ call.name = "swizzleTwice" /\ call.options \in SwapRB
    /\ imageData.width = 2
    /\ PixelAt(pre.imageData, 0, 0) # PixelAt(pre.imageData, 1, 0)
    /\ imageData.data[0] # imageData.data[2]

\* C15: in the Alpha output of unpack every pixel has R = G = B equal to the
\* alpha of the source pixel at the same place, and alpha 255.
C15_UnpackAlphaPerPixel ==
    UnpackCalled =>
        LET source == pre.heap[1]
            a == heap[ret[4]]
        IN  /\ SameSize(a, source)
            /\ \A x \in Columns(a), y \in Rows(a) :
                  /\ \A c \in 0..2 : At(a, x, y, c) = At(source, x, y, 3)
                  /\ At(a, x, y, 3) = 255

(***************************************************************************)
(* tint and bumpScale (src/index.js:77-167).                               *)
(***************************************************************************)
\* The whole number v is a nearest one to n / d.
Nearest(v, n, d) == 2 * Abs(v * d - n) <= d

TintCalled == call.name = "tint"

\* C16: tint with intensity 1 replaces each colour byte c under a
\* non-negative multiplier m by round(c * m / 255) kept within 0..255 (c
\* itself for m = 255, 0 for m = 0), and under a negative m by the
\* interpolation from c towards 255 - c by |m| / 255 (255 - c for
\* m = -255); alpha is unchanged under every multiplier and intensity.
C16_TintChannels ==
    TintCalled =>
        \A p \in Pixels(imageData) :
            /\ imageData.data[4 * p + 3] = pre.imageData.data[4 * p + 3]
            /\ call.int = 1 =>
                  \A k \in 0..2 :
                     LET c == pre.imageData.data[4 * p + k]
                         v == imageData.data[4 * p + k]
                         m == <<call.r, call.g, call.b>>[k + 1]
                     IN  /\ m >= 0 => v = ToUint8Clamp(Round(c * m, 255))
                         /\ m < 0 => Nearest(v, 255 * c + (255 - 2 * c) * (-m), 255)
                         /\ m = 255 => v = c
                         /\ m = 0 => v = 0
                         /\ m = -255 => v = 255 - c

\* A tint of intensity 1 with a negative, a fractional and an over-range
\* multiplier on a pixel whose alpha is neither 0 nor 255.
C16_Witness ==
    /\ TintCalled
    /\ call.int = 1 /\ call.r = -128 /\ call.g = 128 /\ call.b = 300
    /\ pre.imageData.data[0] = 100 /\ imageData.data[0] = 128
    /\ pre.imageData.data[1] = 100 /\ imageData.data[1] = 50
    /\ pre.imageData.data[2] = 100 /\ imageData.data[2] = 118
    /\ pre.imageData.data[3] = 100

BumpCalled == call.name = "bumpScale"

\* C17: bumpScale replaces R and G of every pixel by
\* 128 + (channel - 128) * scale kept within 0..255 and leaves B and A
\* unchanged; scale 1 leaves the buffer unchanged, scale 0 sets R and G to 128.
C17_BumpScale ==
    BumpCalled =>
        /\ \A p \in Pixels(imageData) :
              /\ imageData.data[4 * p + 2] = pre.imageData.data[4 * p + 2]
              /\ imageData.data[4 * p + 3] = pre.imageData.data[4 * p + 3]
              /\ \A k \in 0..1 :
                    LET c == pre.imageData.data[4 * p + k]
                        v == imageData.data[4 * p + k]
                        d == call.scale[2]
                        n == 128 * d + (c - 128) * call.scale[1]
                    IN  IF n < 0 THEN v = 0
                        ELSE IF n > 255 * d THEN v = 255
                        ELSE Nearest(v, n, d)
        /\ call.scale = <<1, 1>> => imageData = pre.imageData
        /\ call.scale = <<0, 1>> =>
              \A p \in Pixels(imageData) :
                  imageData.data[4 * p] = 128 /\ imageData.data[4 * p + 1] = 128

\* A bumpScale by 2 that moved R away from 128 and ran G into the upper
\* limit, on a pixel whose B is not 255.
C17_Witness ==
    /\ BumpCalled /\ call.scale = <<2, 1>>
    /\ pre.imageData.data[0] = 100 /\ imageData.data[0] = 72
    /\ pre.imageData.data[1] = 255 /\ imageData.data[1] = 255
    /\ imageData.data[2] = 100

(***************************************************************************)
(* hdrToSdr (src/index.js:568-619).                                        *)
(***************************************************************************)
HdrCalled == call.name = "hdrToSdr"

\* C18: hdrToSdr always returns an in-range colour: for every byte input
\* and every value of intensity, exposure, contrast, saturation,
\* highlightCompression and shadowLifting each returned component is a whole
\* number of 0..255, and black with the default parameters gives (0, 0, 0).
C18_HdrInRange ==
    HdrCalled =>
        /\ \A c \in 1..3 : ~ret[c].nan /\ ret[c].min >= 0 /\ ret[c].max <= 255
        /\ ( /\ call.r = 0 /\ call.g = 0 /\ call.b = 0
             /\ call.exposure = <<1, 1>> /\ call.contrast = <<1, 1>>
             /\ call.saturation = <<1, 1>>
             /\ call.highlightCompression = <<1, 1>>
             /\ call.shadowLifting = <<0, 1>> )
           => \A c \in 1..3 : ret[c].max = 0

(***************************************************************************)
(* pack and the buffers it is given (src/index.js:354-392).                *)
(***************************************************************************)
\* C20: pack never modifies the buffers it is given: every canvas that
\* existed before the call, the entries' among them, has the dimensions and
\* bytes it had, also when its size differed from the target; the packed
\* canvas returned is a new one of sizeX x sizeY, none of the inputs.
C20_PackLeavesInputs ==
    PackCalled =>
        /\ \A k \in DOMAIN pre.heap : heap[k] = pre.heap[k]
        /\ ret[1] \notin DOMAIN pre.heap
        /\ \A k \in DOMAIN pre.images : pre.images[k].data # ret[1]
        /\ heap[ret[1]].width = call.sizeX /\ heap[ret[1]].height = call.sizeY

\* A pack whose first entry had another size than the target, so that a
\* resized duplicate was sampled, and wrote into the packed canvas.
C20_Witness ==
    /\ PackCalled /\ Len(pre.images) = 2 /\ Len(images) = 2
    /\ ~SameSize(pre.heap[pre.images[1].data], heap[ret[1]])
    /\ images[1].data # pre.images[1].data
    /\ \E i \in DOMAIN heap[ret[1]].data : heap[ret[1]].data[i] # 0

\* The destinations (keys) a channel map declares.
Keys(m) == {m[a][1] : a \in DOMAIN m}

\* C21: the preparation pass of pack handles every entry of the list: of the
\* entries that go into composition none is without a channel claim, none
\* claims a destination an earlier one claims, and each, the entry that
\* followed an excluded one included, is sampled from a canvas of exactly
\* sizeX x sizeY.
C21_PrepareHandlesEveryEntry ==
    PackCalled =>
        \A k \in DOMAIN images :
            /\ images[k].channels # <<>>
            /\ \A j \in 1..(k - 1) :
                  Keys(images[j].channels) \cap Keys(images[k].channels) = {}
            /\ heap[images[k].data].width = call.sizeX
            /\ heap[images[k].data].height = call.sizeY

(***************************************************************************)
(* The A output of unpack (src/index.js:419-436).                          *)
(***************************************************************************)
\* C22 as stated: every pixel of the A output of unpack, the first and all
\* later ones, has R = G = B equal to the alpha the source's first pixel had
\* when unpack was called.
C22_UnpackAlphaFromFirstPixel ==
    UnpackCalled =>
        LET source == pre.heap[1]
            a == heap[ret[4]]
        IN  \A x \in Columns(a), y \in Rows(a), c \in 0..2 :
                At(a, x, y, c) = At(source, 0, 0, 3)

\* C22 as the code has it: the A output has the source's dimensions and
\* alpha 255 everywhere; its first pixel has R = G = B equal to the alpha the
\* source's first pixel had when unpack was called, and every later pixel
\* has R = G = B = 255, the value the first pass of the loop left in the
\* byte that is read.
C22_UnpackAlphaFromLiveByte ==
    UnpackCalled =>
        LET source == pre.heap[1]
            a == heap[ret[4]]
        IN  /\ SameSize(a, source)
            /\ \A x \in Columns(a), y \in Rows(a) :
                  /\ At(a, x, y, 3) = 255
                  /\ \A c \in 0..2 :
                        At(a, x, y, c) = IF x = 0 /\ y = 0
                                         THEN At(source, 0, 0, 3) ELSE 255

\* The A output of a source of several pixels whose alphas differ and are
\* not 255: gray of the first alpha at the first pixel, white at the second.
C22_Witness ==
    /\ UnpackCalled
    /\ pre.heap[1].width = 2
    /\ pre.heap[1].data[3] # pre.heap[1].data[7]
    /\ pre.heap[1].data[3] # 255 /\ pre.heap[1].data[7] # 255
    /\ heap[ret[4]].data[0] = pre.heap[1].data[3]
    /\ heap[ret[4]].data[4] = 255
====
